---- MODULE Spec2Model ----
(***************************************************************************)
(* A model of PolygonAugmentor (src/src/augmentor.py) and of its driver    *)
(* (src/main.py): the label codec (read_polygons, write_polygons), the     *)
(* per-image workflow (process_image) and the thread-pool batch (run).     *)
(*                                                                         *)
(* Numbers.  A Python float is a record [t, v]: t = "fin" with v the value *)
(* in units of 1/One, or one of the special values nan, inf, -inf.  One is *)
(* Micro * Sub: Micro is the resolution of the "%.6f" format, Sub the      *)
(* number of in-memory steps between two neighbouring 6-decimal values.    *)
(* Arithmetic on finite values is exact (no binary rounding is modelled).  *)
(*                                                                         *)
(* Text.  A label file is a sequence of lines and a line the sequence of   *)
(* tokens that line.strip().split() yields; a token is [k, m] with k its   *)
(* lexical kind and m its value (an integer, or a count of 1e-6 steps).    *)
(***************************************************************************)
EXTENDS Integers, Sequences, FiniteSets, TLC

VARIABLES
    \* the batch: one PolygonAugmentor, its directories and its thread pool
    sameRoots,          \* the output directories are the source directories
    num_augmentations,  \* self.num_augmentations
    imgFs,              \* the *.jpg files: <<directory, stem>> -> image
    lblFs,              \* the *.txt files: <<directory, stem>> -> label file
    rng,                \* the state of the random source self.augment draws from
    runPc,              \* where run() is
    task,               \* stem -> the state of process_image(that image)
    completed,          \* "Augmentation completed." messages logged
    emptyWarned,        \* "No images found to process." messages logged
    propagated,         \* an exception of a task was raised in run()
    faults,             \* failures the environment has injected so far
    \* the codec on its own: write_polygons, then read_polygons
    cPc, cInput, cFile, cOut

bvars == <<sameRoots, num_augmentations, imgFs, lblFs, rng, runPc, task,
           completed, emptyWarned, propagated, faults>>

cvars == <<cPc, cInput, cFile, cOut>>

vars == <<bvars, cvars>>

(***************************************************************************)
(* Bounds and constants                                                    *)
(***************************************************************************)
Micro == 1000000

Sub == 2

MaxPts == 1

MaxPolys == 2

MaxLines == 2

MaxImages == 2

MaxAug == 3

MaxWork == 4

MaxFaults == 2

RngPeriod == 16

One == Micro * Sub

(***************************************************************************)
(* Python floats                                                           *)
(***************************************************************************)
Fin(v) == [t |-> "fin", v |-> v]

NaN == [t |-> "nan", v |-> 0]

PosInf == [t |-> "inf", v |-> 0]

NegInf == [t |-> "ninf", v |-> 0]

\* a < b on floats: every comparison with nan is false
FLt(a, b) ==
    CASE a.t = "nan" \/ b.t = "nan" -> FALSE
      [] a.t = "ninf" -> b.t # "ninf"
      [] a.t = "inf" -> FALSE
      [] b.t = "inf" -> TRUE
      [] b.t = "ninf" -> FALSE
      [] OTHER -> a.v < b.v

\* max(x, lo): the builtin keeps its first argument unless the second is greater
PyMax(x, lo) == IF FLt(x, lo) THEN lo ELSE x

\* min(x, hi): the builtin keeps its first argument unless the second is smaller
PyMin(x, hi) == IF FLt(hi, x) THEN hi ELSE x

\* min(max(x, 0.0), 1.0)
Clamp(x) == PyMin(PyMax(x, Fin(0)), Fin(One))

(***************************************************************************)
(* Tokens                                                                  *)
(***************************************************************************)
IntTok(n) == [k |-> "int", m |-> n]

DecTok(m) == [k |-> "dec", m |-> m]

NanTok == [k |-> "nan", m |-> 0]

InfTok == [k |-> "inf", m |-> 0]

NInfTok == [k |-> "ninf", m |-> 0]

BadTok == [k |-> "bad", m |-> 0]

\* int(tok) succeeds
IntOk(tok) == tok.k = "int"

\* float(tok) succeeds: "nan", "inf" and "-inf" are float literals
FloatOk(tok) == tok.k # "bad"

\* float(tok)
FloatOf(tok) ==
    CASE tok.k = "int" -> Fin(tok.m * One)
      [] tok.k = "dec" -> Fin(tok.m * Sub)
      [] tok.k = "nan" -> NaN
      [] tok.k = "inf" -> PosInf
      [] OTHER -> NegInf

\* v / Sub rounded to the nearest integer, ties to even
RoundHalfEven(v) ==
    LET q == v \div Sub
        r == v % Sub
    IN  IF 2 * r < Sub THEN q
        ELSE IF 2 * r > Sub THEN q + 1
        ELSE IF q % 2 = 0 THEN q ELSE q + 1

\* (a changed Fmt6: five decimals instead of six)
Fmt6Coarse(c) ==
    CASE c.t = "fin" -> DecTok(10 * ((RoundHalfEven(c.v) + 5) \div 10))
      [] c.t = "nan" -> NanTok
      [] c.t = "inf" -> InfTok
      [] OTHER -> NInfTok

\* f"{c:.6f}"
Fmt6(c) ==
    CASE c.t = "fin" -> DecTok(RoundHalfEven(c.v))
      [] c.t = "nan" -> NanTok
      [] c.t = "inf" -> InfTok
      [] OTHER -> NInfTok

(***************************************************************************)
(* read_polygons                                                           *)
(***************************************************************************)
NoFile == [exists |-> FALSE, lines |-> <<>>]

File(lines) == [exists |-> TRUE, lines |-> lines]

Polygon(class_id, points) == [class_id |-> class_id, points |-> points]

\* The body of the for loop for one line: parts[0] of a blank line, int() of a
\* non-integer, float() of a non-number and coords[i+1] past an odd-length list raise.
ParseLine(parts) ==
    IF Len(parts) = 0 \/ ~IntOk(parts[1])
        THEN [ok |-> FALSE, poly |-> Polygon(0, <<>>)]
    ELSE IF \E i \in 2..Len(parts) : ~FloatOk(parts[i])
        THEN [ok |-> FALSE, poly |-> Polygon(0, <<>>)]
    ELSE IF (Len(parts) - 1) % 2 = 1
        THEN [ok |-> FALSE, poly |-> Polygon(0, <<>>)]
    ELSE [ok |-> TRUE,
          poly |-> Polygon(parts[1].m,
                      [j \in 1..((Len(parts) - 1) \div 2) |->
                          <<FloatOf(parts[2 * j]), FloatOf(parts[2 * j + 1])>>])]

\* (a changed ReadLines: the except discards the polygons read so far)
RECURSIVE ReadLinesClearing(_, _)
ReadLinesClearing(lines, polygons) ==
    IF lines = <<>> THEN [polygons |-> polygons, logged |-> FALSE]
    ELSE LET r == ParseLine(Head(lines))
         IN  IF r.ok THEN ReadLinesClearing(Tail(lines), Append(polygons, r.poly))
             ELSE [polygons |-> <<>>, logged |-> TRUE]

\* The for loop over the lines, inside the try: the first line that raises ends
\* the loop, the except logs, and the polygons appended so far are returned.
RECURSIVE ReadLines(_, _)
ReadLines(lines, polygons) ==
    IF lines = <<>> THEN [polygons |-> polygons, logged |-> FALSE]
    ELSE LET r == ParseLine(Head(lines))
         IN  IF r.ok THEN ReadLines(Tail(lines), Append(polygons, r.poly))
             ELSE [polygons |-> polygons, logged |-> TRUE]

\* open() of a missing file raises inside the try as well
read_polygons(file) ==
    IF file.exists THEN ReadLines(file.lines, <<>>)
    ELSE [polygons |-> <<>>, logged |-> TRUE]

(***************************************************************************)
(* write_polygons                                                          *)
(***************************************************************************)
\* coords_flat of one polygon: x and y of each point, clamped, in order
CoordsFlat(points) ==
    [k \in 1..(2 * Len(points)) |-> Clamp(points[(k + 1) \div 2][2 - (k % 2)])]

\* f"{class_id} " + " ".join(f"{c:.6f}" for c in coords_flat)
WriteLine(poly) ==
    <<IntTok(poly.class_id)>> \o
    [k \in 1..(2 * Len(poly.points)) |-> Fmt6(CoordsFlat(poly.points)[k])]

\* The file write_polygons leaves when open() and the writes succeed
write_polygons(polygons) == File([p \in 1..Len(polygons) |-> WriteLine(polygons[p])])

(***************************************************************************)
(* The transform pipeline self.augment and the coordinate mapping          *)
(***************************************************************************)
\* x * width (and y * height): a float times the int image.shape gives
FMulInt(x, n) == IF x.t = "fin" THEN Fin(x.v * n) ELSE x

\* x / width (and y / height)
FDivInt(x, n) == IF x.t = "fin" THEN Fin(x.v \div n) ELSE x

\* width - x, the x of a keypoint mirrored across the vertical midline
FSubFrom(n, x) ==
    CASE x.t = "fin" -> Fin(n * One - x.v)
      [] x.t = "inf" -> NegInf
      [] x.t = "ninf" -> PosInf
      [] OTHER -> NaN

\* keypoints.append((x * width, y * height))
ToPixel(pt, width, height) == <<FMulInt(pt[1], width), FMulInt(pt[2], height)>>

\* (a changed ToNormalized: x and y both divided by the height)
ToNormalizedSwapped(pt, width, height) ==
    <<FDivInt(pt[1], height), FDivInt(pt[2], height)>>

\* (x / width, y / height)
ToNormalized(pt, width, height) == <<FDivInt(pt[1], width), FDivInt(pt[2], height)>>

\* The keypoints list of one iteration: every polygon's points, in order
RECURSIVE Flatten(_, _, _)
Flatten(polygons, width, height) ==
    IF polygons = <<>> THEN <<>>
    ELSE [j \in 1..Len(Head(polygons).points) |->
              ToPixel(Head(polygons).points[j], width, height)]
         \o Flatten(Tail(polygons), width, height)

\* seq[lo:hi] of Python (0-based, hi exclusive, cut at the end of the list)
PySlice(seq, lo, hi) ==
    LET top == IF hi < Len(seq) THEN hi ELSE Len(seq)
    IN  IF lo >= top THEN <<>> ELSE [j \in 1..(top - lo) |-> seq[lo + j]]

\* (a changed Reslice: idx is not advanced)
RECURSIVE ResliceStuck(_, _, _, _, _)
ResliceStuck(polygons, aug_keypoints, idx, width, height) ==
    IF polygons = <<>> THEN <<>>
    ELSE LET num_points == Len(Head(polygons).points)
             pts == PySlice(aug_keypoints, idx, idx + num_points)
         IN  <<Polygon(Head(polygons).class_id,
                       [j \in 1..Len(pts) |-> ToNormalized(pts[j], width, height)])>>
             \o ResliceStuck(Tail(polygons), aug_keypoints, idx, width, height)

\* polygons_aug: the transformed keypoints cut back into polygons
RECURSIVE Reslice(_, _, _, _, _)
Reslice(polygons, aug_keypoints, idx, width, height) ==
    IF polygons = <<>> THEN <<>>
    ELSE LET num_points == Len(Head(polygons).points)
             pts == PySlice(aug_keypoints, idx, idx + num_points)
         IN  <<Polygon(Head(polygons).class_id,
                       [j \in 1..Len(pts) |-> ToNormalized(pts[j], width, height)])>>
             \o Reslice(Tail(polygons), aug_keypoints, idx + num_points, width, height)

\* The gates one call of the pipeline draws, from the state of its random source
GatesAt(s) ==
    [HorizontalFlip |-> s % 2 = 1,
     RandomBrightnessContrast |-> (s \div 2) % 2 = 1,
     Blur |-> (s \div 4) % 2 = 1,
     CLAHE |-> (s \div 8) % 2 = 1]

\* The state of the random source after one call
Advance(s) == (5 * s + 3) % RngPeriod

\* The states the random source may be in when run() starts: only the flip
\* fires first, only photometric transforms fire first, all four fire first
Seeds == {1, 6, 15}

\* HorizontalFlip on the keypoints
KeypointsHFlip(keypoints, width) ==
    [j \in 1..Len(keypoints) |-> <<FSubFrom(width, keypoints[j][1]), keypoints[j][2]>>]

\* The transforms of the Compose, in its order, that one call applies
Applied(g) ==
    (IF g.HorizontalFlip THEN <<"HorizontalFlip">> ELSE <<>>)
    \o (IF g.RandomBrightnessContrast THEN <<"RandomBrightnessContrast">> ELSE <<>>)
    \o (IF g.Blur THEN <<"Blur">> ELSE <<>>)
    \o (IF g.CLAHE THEN <<"CLAHE">> ELSE <<>>)

\* self.augment(image=image, keypoints=keypoints) when it returns
augment(image, keypoints, s) ==
    LET g == GatesAt(s)
    IN  [image |-> [image EXCEPT !.ops = @ \o Applied(g)],
         keypoints |-> IF g.HorizontalFlip
                          THEN KeypointsHFlip(keypoints, image.width)
                          ELSE keypoints]

(***************************************************************************)
(* The directories and the source data sets a run can start from           *)
(***************************************************************************)
image_dir == "data/Images/train/images"

label_dir == "data/Images/train/labels"

\* main.py writes into the source directories; the example of the file header
\* uses directories of their own
output_img_dir == IF sameRoots THEN image_dir ELSE "aug_images/"

output_lbl_dir == IF sameRoots THEN label_dir ELSE "aug_labels/"

\* What cv2.imread returns: the decoded array (its shape, where it comes from and
\* the transforms applied to it so far), or None when ok is false
Image(src, width, height) ==
    [ok |-> TRUE, src |-> src, width |-> width, height |-> height, ops |-> <<>>]

NoImage == [ok |-> FALSE, src |-> "", width |-> 0, height |-> 0, ops |-> <<>>]

Dec(m) == DecTok(m)

\* The images a source directory may hold, each with its label file
Catalog ==
    [a |-> [image |-> Image("a", 640, 480),
            label |-> File(<< <<IntTok(0), Dec(100000), Dec(100000), Dec(900000),
                                Dec(100000), Dec(900000), Dec(900000)>> >>)],
     b |-> [image |-> Image("b", 4, 3),
            label |-> File(<< <<IntTok(1), Dec(500000), Dec(250000)>>,
                              <<IntTok(2)>>,
                              <<IntTok(3), Dec(-100000), Dec(1100000), NanTok, IntTok(1)>> >>)],
     a_aug0 |-> [image |-> [Image("a", 640, 480) EXCEPT !.ops = <<"HorizontalFlip">>],
                 label |-> File(<< <<IntTok(0), Dec(900000), Dec(100000),
                                     Dec(100000), Dec(100000)>> >>)],
     c |-> [image |-> Image("c", 4, 3), label |-> NoFile],
     d |-> [image |-> NoImage, label |-> File(<< <<IntTok(0), Dec(500000), Dec(500000)>> >>)],
     e |-> [image |-> Image("e", 4, 3),
            label |-> File(<< <<IntTok(5), Dec(250000), Dec(750000)>>,
                              <<IntTok(5), Dec(500000)>>,
                              <<IntTok(6), Dec(100000), Dec(100000)>> >>)]]

Stems == DOMAIN Catalog

(***************************************************************************)
(* process_image                                                           *)
(***************************************************************************)
NoLast ==
    [ok |-> FALSE, i |-> 0, gates |-> GatesAt(0), keypoints |-> <<>>,
     aug_keypoints |-> <<>>, aug_img |-> NoImage, polygons_aug |-> <<>>]

\* A task the pool has not started yet
NewTask ==
    [pc |-> "queued", imread |-> FALSE, why |-> "", labelErr |-> FALSE,
     image |-> NoImage, polygons |-> <<>>, i |-> 0,
     raised |-> {}, imgFailed |-> {}, lblFailed |-> {}, imgOut |-> {}, lblOut |-> {},
     draws |-> 0, prevPos |-> 0, pos |-> 0, last |-> NoLast]

\* (a changed AugName: the iteration index is left out)
AugNameNoIndex(name, i) == name \o "_aug"

\* new_name = f'{name}_aug{i}'
AugName(name, i) == name \o "_aug" \o ToString(i)

\* (a changed LoadOutcome: the image is read before the label is looked up)
LoadOutcomeImageFirst(labelExists, img, crash) ==
    IF crash THEN [pc |-> "crashed", imread |-> TRUE, why |-> "exception"]
    ELSE IF ~img.ok
        THEN [pc |-> "skipped", imread |-> TRUE, why |-> "Could not read image"]
    ELSE IF ~labelExists
        THEN [pc |-> "skipped", imread |-> TRUE, why |-> "Label not found"]
    ELSE [pc |-> "loop", imread |-> TRUE, why |-> ""]

\* The two early returns: no label file (cv2.imread is not reached), image is None.
\* cv2.imread is outside every try: what it raises leaves process_image.
LoadOutcome(labelExists, img, crash) ==
    IF ~labelExists
        THEN [pc |-> "skipped", imread |-> FALSE, why |-> "Label not found"]
    ELSE IF crash THEN [pc |-> "crashed", imread |-> TRUE, why |-> "exception"]
    ELSE IF ~img.ok
        THEN [pc |-> "skipped", imread |-> TRUE, why |-> "Could not read image"]
    ELSE [pc |-> "loop", imread |-> TRUE, why |-> ""]

\* process_image up to the loop
Load(st) ==
    /\ runPc = "waiting"
    /\ task[st].pc = "queued"
    /\ \E crash \in BOOLEAN :
         /\ crash => faults < MaxFaults
         /\ LET label_path == <<label_dir, st>>
                o == LoadOutcome(label_path \in DOMAIN lblFs, imgFs[<<image_dir, st>>], crash)
                r == read_polygons(lblFs[label_path])
            IN  /\ task' = [task EXCEPT ![st] =
                      IF o.pc = "loop"
                         THEN [@ EXCEPT !.pc = "loop", !.imread = TRUE,
                                        !.image = imgFs[<<image_dir, st>>],
                                        !.polygons = r.polygons, !.labelErr = r.logged]
                         ELSE [@ EXCEPT !.pc = o.pc, !.imread = o.imread, !.why = o.why]]
                /\ faults' = IF o.pc = "crashed" THEN faults + 1 ELSE faults
    /\ UNCHANGED <<sameRoots, num_augmentations, imgFs, lblFs, rng, runPc,
                   completed, emptyWarned, propagated, cvars>>

\* for i in range(self.num_augmentations) has a pass left
IterateReady(st) == runPc = "waiting" /\ task[st].pc = "loop"

\* One pass of the for loop
Iterate(st) ==
    /\ IterateReady(st)
    /\ LET t == task[st]
           keypoints == Flatten(t.polygons, t.image.width, t.image.height)
           next_pc == IF t.i + 1 = num_augmentations THEN "done" ELSE "loop"
           drawn == [t EXCEPT !.draws = @ + 1, !.prevPos = t.pos, !.pos = rng,
                              !.i = @ + 1, !.pc = next_pc]
       IN  /\ rng' = Advance(rng)
           /\ \/ \* self.augment raises: logged, continue
                 /\ faults < MaxFaults
                 /\ faults' = faults + 1
                 /\ task' = [task EXCEPT ![st] = [drawn EXCEPT !.raised = @ \cup {t.i}]]
                 /\ UNCHANGED <<imgFs, lblFs>>
              \/ \* self.augment returns: re-slice, then the two writes
                 \E imw \in {"ok", "false", "raise"}, lw \in {"ok", "fail"} :
                   LET augmented == augment(t.image, keypoints, rng)
                       polygons_aug == Reslice(t.polygons, augmented.keypoints, 0,
                                               t.image.width, t.image.height)
                       new_name == AugName(st, t.i)
                       cost == (IF imw = "ok" THEN 0 ELSE 1) + (IF lw = "ok" THEN 0 ELSE 1)
                       \* an exception of cv2.imwrite skips write_polygons
                       lbl_written == imw # "raise" /\ lw = "ok"
                   IN  /\ imw = "raise" => lw = "ok"
                       /\ faults + cost <= MaxFaults
                       /\ faults' = faults + cost
                       /\ imgFs' = IF imw = "ok"
                                      THEN (<<output_img_dir, new_name>> :> augmented.image)
                                           @@ imgFs
                                      ELSE imgFs
                       /\ lblFs' = IF lbl_written
                                      THEN (<<output_lbl_dir, new_name>> :>
                                                write_polygons(polygons_aug)) @@ lblFs
                                      ELSE lblFs
                       /\ task' = [task EXCEPT ![st] =
                             [drawn EXCEPT
                                !.imgOut = IF imw = "ok" THEN @ \cup {new_name} ELSE @,
                                !.lblOut = IF lbl_written THEN @ \cup {new_name} ELSE @,
                                !.imgFailed = IF imw = "ok" THEN @ ELSE @ \cup {t.i},
                                !.lblFailed = IF lbl_written THEN @ ELSE @ \cup {t.i},
                                !.last = [ok |-> TRUE, i |-> t.i, gates |-> GatesAt(rng),
                                          keypoints |-> keypoints,
                                          aug_keypoints |-> augmented.keypoints,
                                          aug_img |-> augmented.image,
                                          polygons_aug |-> polygons_aug]]]
    /\ UNCHANGED <<sameRoots, num_augmentations, runPc, completed, emptyWarned,
                   propagated, cvars>>

(***************************************************************************)
(* run                                                                     *)
(***************************************************************************)
\* glob(os.path.join(self.image_dir, '*.jpg'))
Glob == {p[2] : p \in {q \in DOMAIN imgFs : q[1] = image_dir}}

Finished(t) == t.pc \in {"skipped", "done", "crashed"}

\* (a changed PoolJoined: the with block does not wait for the tasks)
PoolNotJoined == TRUE

\* Leaving the with block is executor.shutdown(wait=True)
PoolJoined == \A st \in DOMAIN task : Finished(task[st])

\* The iterator executor.map returns is never consumed, so the exception a task
\* ended with stays in its future
ResultsConsumed == FALSE

\* run() up to the dispatch
RunStart ==
    /\ runPc = "start"
    /\ IF Glob = {}
          THEN /\ emptyWarned' = emptyWarned + 1
               /\ runPc' = "returned"
               /\ task' = task
          ELSE /\ task' = [st \in Glob |-> NewTask]
               /\ runPc' = "waiting"
               /\ emptyWarned' = emptyWarned
    /\ UNCHANGED <<sameRoots, num_augmentations, imgFs, lblFs, rng, completed,
                   propagated, faults, cvars>>

\* run() from the end of the with block
RunComplete ==
    /\ runPc = "waiting"
    /\ PoolJoined
    /\ LET raises == ResultsConsumed /\ \E st \in DOMAIN task : task[st].pc = "crashed"
       IN  /\ propagated' = raises
           /\ completed' = IF raises THEN completed ELSE completed + 1
    /\ runPc' = "returned"
    /\ UNCHANGED <<sameRoots, num_augmentations, imgFs, lblFs, rng, task,
                   emptyWarned, faults, cvars>>

(***************************************************************************)
(* The batch                                                               *)
(***************************************************************************)
CodecIdle ==
    /\ cPc = "idle"
    /\ cInput = [mode |-> "none", polygons |-> <<>>]
    /\ cFile = NoFile
    /\ cOut = [polygons |-> <<>>, logged |-> FALSE]

Init ==
    /\ \E S \in SUBSET Stems, n \in 1..MaxAug :
         /\ Cardinality(S) <= MaxImages
         /\ Cardinality(S) * n <= MaxWork
         /\ num_augmentations = n
         /\ imgFs = [p \in {<<image_dir, st>> : st \in S} |-> Catalog[p[2]].image]
         /\ lblFs = [p \in {<<label_dir, st>> : st \in {x \in S : Catalog[x].label.exists}}
                        |-> Catalog[p[2]].label]
    /\ sameRoots \in BOOLEAN
    /\ rng \in Seeds
    /\ runPc = "start"
    /\ task = <<>>
    /\ completed = 0
    /\ emptyWarned = 0
    /\ propagated = FALSE
    /\ faults = 0
    /\ CodecIdle

Next ==
    \/ RunStart
    \/ \E st \in DOMAIN task : Load(st)
    \/ \E st \in DOMAIN task : Iterate(st)
    \/ RunComplete

Spec == Init /\ [][Next]_vars

(***************************************************************************)
(* The codec on its own: write_polygons and read_polygons applied to       *)
(* bounded inputs                                                          *)
(***************************************************************************)
\* Sequences over S of length at most n
SeqsUpTo(S, n) == UNION {[1..k -> S] : k \in 0..n}

\* Points an annotation set may hold: below 0, above 1, on the bounds, between
\* two 6-decimal values, not a number, infinite
PointSet ==
    { <<Fin(0 - (One \div 10)), Fin(One \div 2)>>,
      <<Fin(333333 * Sub + 1), Fin(One + (One \div 10))>>,
      <<Fin(0), Fin(One)>>,
      <<Fin(One - 1), Fin(333333 * Sub + 1)>>,
      <<NaN, Fin(One \div 4)>>,
      <<PosInf, NegInf>> }

ClassIds == {0, 7}

AnnotationSets ==
    SeqsUpTo({Polygon(c, pts) : c \in ClassIds, pts \in SeqsUpTo(PointSet, MaxPts)},
             MaxPolys)

\* Lines a label file may hold: well formed (with and without points, with nan and
\* an integer literal as coordinates), blank, an odd number of coordinates, a
\* non-numeric coordinate, a class id that is no integer literal, a non-numeric id
LineSet ==
    { <<IntTok(0), DecTok(100000), DecTok(900000)>>,
      <<IntTok(1)>>,
      <<IntTok(4), NanTok, IntTok(1)>>,
      <<>>,
      <<IntTok(2), DecTok(500000)>>,
      <<IntTok(3), BadTok, DecTok(1)>>,
      <<DecTok(500000), DecTok(1), DecTok(2)>>,
      <<BadTok>> }

LabelFiles == {File(ls) : ls \in SeqsUpTo(LineSet, MaxLines)}

BatchIdle ==
    /\ sameRoots = FALSE
    /\ num_augmentations = 3
    /\ imgFs = <<>>
    /\ lblFs = <<>>
    /\ rng = 0
    /\ runPc = "idle"
    /\ task = <<>>
    /\ completed = 0
    /\ emptyWarned = 0
    /\ propagated = FALSE
    /\ faults = 0

CodecInit ==
    /\ BatchIdle
    /\ cOut = [polygons |-> <<>>, logged |-> FALSE]
    /\ \/ /\ cPc = "write"
          /\ \E s \in AnnotationSets : cInput = [mode |-> "write", polygons |-> s]
          /\ cFile = NoFile
       \/ /\ cPc = "read"
          /\ cInput = [mode |-> "read", polygons |-> <<>>]
          /\ cFile \in LabelFiles

\* write_polygons(cInput, path): the file, or a logged failure of open()
CodecWrite ==
    /\ cPc = "write"
    /\ \E ok \in BOOLEAN :
         cFile' = IF ok THEN write_polygons(cInput.polygons) ELSE NoFile
    /\ cPc' = "read"
    /\ UNCHANGED <<cInput, cOut, bvars>>

\* read_polygons(path)
CodecRead ==
    /\ cPc = "read"
    /\ cOut' = read_polygons(cFile)
    /\ cPc' = "done"
    /\ UNCHANGED <<cInput, cFile, bvars>>

CodecNext == CodecWrite \/ CodecRead

SpecCodec == CodecInit /\ [][CodecNext]_vars

(***************************************************************************)
(* Properties of the codec (checked under SpecCodec)                       *)
(***************************************************************************)
Abs(n) == IF n < 0 THEN 0 - n ELSE n

Below0(x) == x.t = "ninf" \/ (x.t = "fin" /\ x.v < 0)

Above1(x) == x.t = "inf" \/ (x.t = "fin" /\ x.v > One)

InUnit(x) == x.t = "fin" /\ 0 <= x.v /\ x.v <= One

\* The coordinate token of point j, axis c (1 = x, 2 = y), on a written line
CoordTok(line, j, c) == line[2 * j + c - 1]

\* write_polygons has produced a file from cInput
CodecWritten == cInput.mode = "write" /\ cPc \in {"read", "done"} /\ cFile.exists

\* tok is what the claim C3 allows for the coordinate x: a 6-decimal number in
\* [0,1], 0 for x < 0, 1 for x > 1, x itself (to half a step) otherwise
WrittenAs(x, tok) ==
    /\ tok.k = "dec"
    /\ 0 <= tok.m /\ tok.m <= Micro
    /\ Below0(x) => tok.m = 0
    /\ Above1(x) => tok.m = Micro
    /\ InUnit(x) => 2 * Abs(tok.m * Sub - x.v) <= Sub

\* C3: every coordinate write_polygons writes lies in [0,1]: a coordinate below 0
\* is written as 0, one above 1 as 1, one in [0,1] unchanged up to the 6-decimal
\* format, x and y independently, and as many polygons and points are written, in
\* the same order, as were passed in.
C3_WrittenCoordinatesInUnit ==
    CodecWritten =>
        /\ Len(cFile.lines) = Len(cInput.polygons)
        /\ \A p \in 1..Len(cInput.polygons) :
             LET pts == cInput.polygons[p].points
                 line == cFile.lines[p]
             IN  /\ Len(line) = 1 + 2 * Len(pts)
                 /\ line[1] = IntTok(cInput.polygons[p].class_id)
                 /\ \A j \in 1..Len(pts), c \in 1..2 :
                      WrittenAs(pts[j][c], CoordTok(line, j, c))

AllInUnit(polygons) ==
    \A p \in 1..Len(polygons) : \A j \in 1..Len(polygons[p].points), c \in 1..2 :
        InUnit(polygons[p].points[j][c])

\* The round trip write_polygons, read_polygons of a set with all coordinates in [0,1]
RoundTripDone == cPc = "done" /\ CodecWritten /\ AllInUnit(cInput.polygons)

WellFormedLine(parts) ==
    /\ Len(parts) >= 1
    /\ parts[1].k = "int"
    /\ \A i \in 2..Len(parts) : parts[i].k \in {"int", "dec", "nan", "inf", "ninf"}
    /\ (Len(parts) - 1) % 2 = 0

Malformed(lines) == {i \in 1..Len(lines) : ~WellFormedLine(lines[i])}

FirstMalformed(lines) ==
    CHOOSE i \in Malformed(lines) : \A k \in Malformed(lines) : i <= k

\* read_polygons has read a file that holds a malformed line
MalformedRead == cPc = "done" /\ cInput.mode = "read" /\ Malformed(cFile.lines) # {}

Augmented == {st \in DOMAIN task : task[st].last.ok}

\* The number of points of the polygons before polygon k
RECURSIVE Offset(_, _)
Offset(polygons, k) ==
    IF k = 1 THEN 0 ELSE Offset(polygons, k - 1) + Len(polygons[k - 1].points)

\* C1: when the transform returns as many keypoints as it was given, the augmented
\* set has the polygons of the set read from the label file, in order, each with
\* the class_id and the number of points of the original; the flattened list has
\* the sum of the point counts as its length, and point j of polygon k is the
\* transformed keypoint at position (points before polygon k) + j, the last
\* polygon ending at the end of the list.
C1_ResliceKeepsPolygons ==
    \A st \in Augmented :
        LET t == task[st]
            L == t.last
            n == Len(t.polygons)
        IN  Len(L.aug_keypoints) = Len(L.keypoints) =>
              /\ Len(L.keypoints) = Offset(t.polygons, n + 1)
              /\ Len(L.polygons_aug) = n
              /\ \A k \in 1..n :
                   /\ L.polygons_aug[k].class_id = t.polygons[k].class_id
                   /\ Len(L.polygons_aug[k].points) = Len(t.polygons[k].points)
                   /\ \A j \in 1..Len(t.polygons[k].points) :
                        L.polygons_aug[k].points[j] =
                            ToNormalized(L.aug_keypoints[Offset(t.polygons, k) + j],
                                         t.image.width, t.image.height)

\* An iteration on three polygons of 1, 0 and 2 points, the flip having fired
C1_Witness ==
    \E st \in Augmented :
        /\ Len(task[st].polygons) = 3
        /\ Len(task[st].polygons[1].points) = 1
        /\ Len(task[st].polygons[2].points) = 0
        /\ Len(task[st].polygons[3].points) = 2
        /\ task[st].last.gates.HorizontalFlip
        /\ Len(task[st].last.keypoints) = 3

\* 1 - x
OneMinus(x) ==
    CASE x.t = "fin" -> Fin(One - x.v)
      [] x.t = "inf" -> NegInf
      [] x.t = "ninf" -> PosInf
      [] OTHER -> NaN

OnlyFlip ==
    [HorizontalFlip |-> TRUE, RandomBrightnessContrast |-> FALSE,
     Blur |-> FALSE, CLAHE |-> FALSE]

Pt(xm, ym) == <<Fin(xm * Sub), Fin(ym * Sub)>>

\* C2: the normalized point produced for the source point (x, y), at the same
\* polygon and position, is (1 - x, y) when the horizontal flip fired in the
\* iteration and (x, y) when it did not, whatever the photometric gates did; and
\* the 640x480 polygon [(0.1,0.1),(0.9,0.1),(0.9,0.9)] with only the flip firing
\* gives [(0.9,0.1),(0.1,0.1),(0.1,0.9)] and the image mirrored once.
C2_FlipMapsPoints ==
    \A st \in Augmented :
        LET t == task[st]
            L == t.last
        IN  /\ \A k \in 1..Len(t.polygons) : \A j \in 1..Len(t.polygons[k].points) :
                 LET p == t.polygons[k].points[j]
                     q == L.polygons_aug[k].points[j]
                 IN  /\ q[2] = p[2]
                     /\ q[1] = IF L.gates.HorizontalFlip THEN OneMinus(p[1]) ELSE p[1]
            /\ (/\ t.image = Image("a", 640, 480)
                /\ t.polygons = <<Polygon(0, <<Pt(100000, 100000), Pt(900000, 100000),
                                               Pt(900000, 900000)>>)>>
                /\ L.gates = OnlyFlip)
               => /\ L.polygons_aug = <<Polygon(0, <<Pt(900000, 100000),
                                          Pt(100000, 100000), Pt(100000, 900000)>>)>>
                  /\ L.aug_img.ops = <<"HorizontalFlip">>

\* The 640x480 scenario with only the flip firing
C2_Witness ==
    \E st \in Augmented :
        /\ task[st].image = Image("a", 640, 480)
        /\ Len(task[st].polygons) = 1
        /\ Len(task[st].polygons[1].points) = 3
        /\ task[st].last.gates = OnlyFlip

\* The names process_image derives for the iterations in I
Names(st, I) == {AugName(st, i) : i \in I}

\* Tasks that found their label file and decoded their image
InLoop == {st \in DOMAIN task : task[st].pc \in {"loop", "done"}}

\* C6 as stated: the outputs of a task are exactly stem_aug{i} for the iterations
\* whose transform did not raise.
C6_OutputsExactlyNotRaised ==
    \A st \in DOMAIN task :
        task[st].pc = "done" =>
            LET want == Names(st, (0..(num_augmentations - 1)) \ task[st].raised)
            IN  task[st].imgOut = want /\ task[st].lblOut = want

\* C6: the images a task has written are exactly stem_aug{i} for the iterations i
\* whose transform did not raise and whose image write did not fail, and likewise
\* the labels; an iteration whose transform raised writes nothing and stops no
\* other iteration; distinct iterations give distinct names; at most N of each.
C6_OutputsExactlyWritten ==
    \A st \in InLoop :
        LET t == task[st]
            ran == 0..(t.i - 1)
            imgI == (ran \ t.raised) \ t.imgFailed
            lblI == (ran \ t.raised) \ t.lblFailed
        IN  /\ t.pc = "done" <=> t.i = num_augmentations
            /\ t.raised \subseteq ran
            /\ t.imgOut = Names(st, imgI)
            /\ t.lblOut = Names(st, lblI)
            /\ Cardinality(t.imgOut) = Cardinality(imgI)
            /\ Cardinality(t.lblOut) = Cardinality(lblI)
            /\ Cardinality(t.imgOut) <= num_augmentations
            /\ \A n \in t.imgOut : <<output_img_dir, n>> \in DOMAIN imgFs
            /\ \A n \in t.lblOut : <<output_lbl_dir, n>> \in DOMAIN lblFs

\* Three iterations, the transform of the second raised, the first and the third
\* wrote their image and their label
C6_Witness ==
    \E st \in InLoop :
        /\ task[st].pc = "done"
        /\ num_augmentations = 3
        /\ task[st].raised = {1}
        /\ task[st].imgOut = {AugName(st, 0), AugName(st, 2)}
        /\ task[st].lblOut = task[st].imgOut
        /\ Cardinality(task[st].imgOut) = 2

\* C7: a task whose label file does not exist, or whose image does not decode,
\* ends Skipped without an output and without entering the loop; a missing label
\* is found before cv2.imread is called; and run() still finishes every other
\* task and returns without an error.
C7_SkippedWritesNothing ==
    /\ \A st \in DOMAIN task :
         LET t == task[st]
         IN  /\ t.pc = "skipped" =>
                  /\ t.imgOut = {} /\ t.lblOut = {}
                  /\ t.i = 0 /\ t.draws = 0 /\ ~t.last.ok
                  /\ t.why = "Label not found" => ~t.imread
             /\ (t.pc # "queued" /\ <<label_dir, st>> \notin DOMAIN lblFs) =>
                  t.pc = "skipped" /\ t.why = "Label not found" /\ ~t.imread
             /\ (/\ t.pc \notin {"queued", "crashed"}
                 /\ <<label_dir, st>> \in DOMAIN lblFs
                 /\ ~imgFs[<<image_dir, st>>].ok) =>
                  t.pc = "skipped" /\ t.why = "Could not read image"
    /\ (runPc = "returned" /\ \E st \in DOMAIN task : task[st].pc = "skipped") =>
         /\ ~propagated
         /\ completed = 1
         /\ \A st \in DOMAIN task : Finished(task[st])

\* A returned run of two tasks: one skipped for its missing label, the other done
\* with outputs
C7_Witness ==
    /\ runPc = "returned"
    /\ \E st, u \in DOMAIN task :
         /\ task[st].pc = "skipped"
         /\ task[st].why = "Label not found"
         /\ task[u].pc = "done"
         /\ task[u].imgOut # {}

\* C9: the random draws of a task are not affected by another task: the state of
\* the random source a task draws from is the one its own previous draw left.
C9_DrawsNotShared ==
    \A st \in DOMAIN task :
        task[st].draws >= 2 => task[st].pos = Advance(task[st].prevPos)

\* The paths a task has opened for reading: its label (os.path.exists,
\* read_polygons) and its image (cv2.imread)
ReadsLabel(st, dir, name) == task[st].pc # "queued" /\ dir = label_dir /\ name = st

ReadsImage(st, dir, name) == task[st].imread /\ dir = image_dir /\ name = st

\* C10: no output path one task writes is written, or read as a source, by another
\* task of the same run.
C10_NoSharedPath ==
    \A st, u \in DOMAIN task :
        st # u =>
            /\ \A n \in task[st].imgOut :
                 /\ n \notin task[u].imgOut
                 /\ ~ReadsImage(u, output_img_dir, n)
            /\ \A n \in task[st].lblOut :
                 /\ n \notin task[u].lblOut
                 /\ ~ReadsLabel(u, output_lbl_dir, n)

\* C8 as stated: every call of run() logs exactly one completion message.
C8_AlwaysOneCompletion == runPc = "returned" => completed = 1

\* What C8 says of every state: at most one completion message, logged only once
\* every dispatched task has finished and run() returns; none when no image was
\* found (one warning instead); no exception of a task raised in run()
RunLogsOnce ==
    /\ completed <= 1
    /\ ~propagated
    /\ completed = 1 => runPc = "returned" /\ \A st \in DOMAIN task : Finished(task[st])
    /\ runPc = "returned" =>
         /\ completed = (IF DOMAIN task = {} THEN 0 ELSE 1)
         /\ emptyWarned = 1 - completed

\* The steps a task can still take: its load and one per iteration left
TaskStepsLeft(t) ==
    CASE t.pc = "queued" -> 1 + num_augmentations
      [] t.pc = "loop" -> num_augmentations - t.i
      [] OTHER -> 0

RECURSIVE SumStepsLeft(_)
SumStepsLeft(S) ==
    IF S = {} THEN 0
    ELSE LET st == CHOOSE x \in S : TRUE
         IN  TaskStepsLeft(task[st]) + SumStepsLeft(S \ {st})

\* The steps run() and its tasks can still take; 0 exactly when run() has returned
StepsLeft ==
    CASE runPc = "start" -> 2 + Cardinality(Glob) * (1 + num_augmentations)
      [] runPc = "waiting" -> 1 + SumStepsLeft(DOMAIN task)
      [] OTHER -> 0

\* One of run() and its tasks can take a step.  A pass of the loop that is ready
\* can always be taken: the transform may return and both writes succeed.
CanStep ==
    \/ ENABLED RunStart
    \/ ENABLED RunComplete
    \/ \E st \in DOMAIN task : ENABLED Load(st)
    \/ \E st \in DOMAIN task : IterateReady(st)

\* C8: every call of run() returns (until it has, a step is possible, and every
\* step lowers the number of steps left); it logs exactly one completion message when it
\* found at least one image and none (a warning instead) when it found no image;
\* the message is logged only after every dispatched task has finished, whatever
\* tasks were skipped, failed an iteration or a write or raised; and no exception
\* of a task reaches the caller of run().
C8_CompletionAfterAllTasks ==
    /\ []RunLogsOnce
    /\ [](runPc # "returned" => CanStep)
    /\ [][StepsLeft' < StepsLeft]_vars

\* A returned run with its completion message, one task of which ended with an
\* exception and another with a failed iteration
C8_Witness ==
    /\ runPc = "returned"
    /\ completed = 1
    /\ \E st, u \in DOMAIN task :
         /\ task[st].pc = "crashed"
         /\ task[u].pc = "done"
         /\ task[u].raised # {}

====
